---------------------------- MODULE Spec2Model ----------------------------
(***************************************************************************)
(* CosmosDBStore (src/servers/cosmosdb_store.py): a TTL-aware key-value    *)
(* store over a partitioned document container.                            *)
(*                                                                         *)
(* Every handler is a coroutine: it runs synchronously up to an await of   *)
(* the container (read_item, upsert_item, delete_item) and resumes when    *)
(* the container answers.  One action models the synchronous code between  *)
(* two awaits; the wall clock may advance and other writers of the         *)
(* container may act between them.  A container request either is          *)
(* answered or fails with a transport error.                               *)
(*                                                                         *)
(* Time is counted in ticks, TicksPerSecond ticks to the second, so that   *)
(* a ttl that is not a whole number of seconds can be given.               *)
(*                                                                         *)
(* The middleware chain of the authenticated server (src/servers/          *)
(* auth_mcp.py, src/servers/opentelemetry_middleware.py): an invocation    *)
(* enters the stages in the configured order, runs the wrapped handler and *)
(* leaves the stages in reverse order.                                     *)
(***************************************************************************)
EXTENDS Integers, Sequences, FiniteSets, TLC

\* ------------------------------------------------------------------ bounds
MaxTime == 2
MaxTtl == 1
MaxBatch == 2
MaxCalls == 3
MaxBatchCalls == 2
MaxWriteCalls == 2
MaxBatchWriteCalls == 1
MaxForeign == 1
MaxExpenses == 2
MaxRuns == 2
TicksPerSecond == 2

\* ------------------------------------------------------------- the inputs
None == <<>>
Some(x) == <<x>>

Tasks == {"t1", "t2"}
Keys == {"a", "b"}
default_collection == "default"
CollectionArgs == {None, Some("clients")}
Values == {{<<"v", 1>>}, {<<"v", 2>>}}
EmptyDict == {}
TtlArgs == {None} \cup {Some(n) : n \in 0..MaxTtl}
BatchLengths == 0..MaxBatch

Max(a, b) == IF a >= b THEN a ELSE b
Last(s) == s[Len(s)]
Count(s, x) == Cardinality({j \in 1..Len(s) : s[j] = x})

\* ------------------------------------------------ timestamps as ISO strings
\* datetime.isoformat() and datetime.fromisoformat(): a timestamp is written as
\* the string <<"T", n>>; any other string does not parse (ValueError).
isoformat(t) == <<"T", t>>
IsIsoString(s) == s[1] = "T"
fromisoformat(s) == s[2]
JunkString == <<"junk", 0>>

\* ------------------------------------------------------------ ManagedEntry
ManagedEntry(value, created_at, expires_at) ==
    [value |-> value, created_at |-> created_at, expires_at |-> expires_at]

\* is_expired with the comparison turned round.
is_expired_inverted(entry, now) ==
    IF entry.expires_at = None THEN FALSE ELSE now < entry.expires_at[1]

is_expired(entry, now) ==
    IF entry.expires_at = None THEN FALSE ELSE now > entry.expires_at[1]

\* ttl_seconds without the floor at zero.
ttl_seconds_signed(entry, now) ==
    IF entry.expires_at = None THEN None ELSE Some(entry.expires_at[1] - now)

ttl_seconds(entry, now) ==
    IF entry.expires_at = None
    THEN None
    ELSE Some(Max(0, entry.expires_at[1] - now))

to_dict(entry) ==
    [value |-> Some(entry.value),
     created_at |-> Some(isoformat(entry.created_at)),
     expires_at |-> IF entry.expires_at = None
                    THEN None
                    ELSE Some(isoformat(entry.expires_at[1]))]

\* The empty mapping {} that item.get("entry", {}) gives for a document
\* without an "entry" field.
EmptyEntryDict == [value |-> None, created_at |-> None, expires_at |-> None]

\* from_dict raises when a timestamp string does not parse; a missing value
\* reads as {} and a missing created_at as the time of the call.
from_dict_raises(data) ==
    \/ data.created_at # None /\ ~IsIsoString(data.created_at[1])
    \/ data.expires_at # None /\ ~IsIsoString(data.expires_at[1])

\* from_dict reading the value under a key that to_dict does not write.
from_dict_value_lost(data, now) ==
    ManagedEntry(EmptyDict,
                 IF data.created_at = None THEN now ELSE fromisoformat(data.created_at[1]),
                 IF data.expires_at = None THEN None ELSE Some(fromisoformat(data.expires_at[1])))

from_dict(data, now) ==
    ManagedEntry(
        IF data.value = None THEN EmptyDict ELSE data.value[1],
        IF data.created_at = None THEN now ELSE fromisoformat(data.created_at[1]),
        IF data.expires_at = None THEN None
        ELSE Some(fromisoformat(data.expires_at[1])))

\* dict(m): a new mapping with the items of m.
dict(m) == {p \in m : TRUE}


\* ------------------------------------------------------------ the container
\* The container holds documents; (partition key, id) addresses one document.
\* The partition key of a document is its "collection" field.
make_document_id(collection, key) == collection \o ":" \o key

\* `collection or self.default_collection`: None and "" are both falsy.
\* A store that ignores the collection argument.
OrDefault_always(collection) == default_collection

OrDefault(collection) ==
    IF collection = None \/ collection = Some("")
    THEN default_collection
    ELSE collection[1]

\* read_item(item=id, partition_key=pk): the documents found (none: the
\* container raises CosmosResourceNotFoundError).
read_item(cont, id, pk) == {d \in cont : d.id = id /\ d.collection = pk}

\* upsert_item(body=document): replaces the document at the same address.
\* An upsert that patches the stored document: the new entry under the old
\* native ttl.
upsert_item_patching(cont, document) ==
    LET old == read_item(cont, document.id, document.collection)
    IN (cont \ old)
         \cup {IF old = {} THEN document
               ELSE [document EXCEPT !.ttl = (CHOOSE d \in old : TRUE).ttl]}

upsert_item(cont, document) ==
    (cont \ read_item(cont, document.id, document.collection)) \cup {document}

\* delete_item(item=id, partition_key=pk)
delete_item(cont, id, pk) == cont \ read_item(cont, id, pk)

\* ------------------------------------------------------ CosmosDBStore.put
\* The synchronous part of put: the document handed to upsert_item.  ttl is
\* given in ticks; int(ttl_seconds) truncates to whole seconds.
put_expires_at(ttl, now) ==
    IF ttl # None /\ ttl[1] > 0 THEN Some(now + ttl[1]) ELSE None

put_cosmos_ttl(ttl) ==
    IF ttl # None /\ ttl[1] > 0 THEN Some(ttl[1] \div TicksPerSecond) ELSE None

put_document(key, value, collection, ttl, now) ==
    [id |-> make_document_id(OrDefault(collection), key),
     collection |-> OrDefault(collection),
     key |-> key,
     entry |-> Some(to_dict(ManagedEntry(dict(value), now, put_expires_at(ttl, now)))),
     ttl |-> put_cosmos_ttl(ttl)]

\* Documents another writer of the container may leave behind: one without an
\* "entry" field, one whose expires_at is not a timestamp.
ForeignDocuments(collection, key) ==
    {[id |-> make_document_id(collection, key), collection |-> collection,
      key |-> key, entry |-> e, ttl |-> None] :
        e \in {None,
               Some([value |-> Some(CHOOSE v \in Values : TRUE),
                     created_at |-> None,
                     expires_at |-> Some(JunkString)])}}

\* ------------------------------------------------------ the middleware chain
\* The stages of the authenticated server, in the order of its middleware
\* list: a stage listed earlier wraps the stages listed later.
\* (Chain_auth_first: the list the other way round.)
Chain_auth_first == <<"UserAuthMiddleware", "OpenTelemetryMiddleware">>

Chain == <<"OpenTelemetryMiddleware", "UserAuthMiddleware">>

\* The kinds of invocation and the hook of each stage that intercepts them.
\* A stage without a hook for a kind passes the invocation on untouched.
Kinds == {"tool", "resource", "prompt"}

Hooks(stage) ==
    IF stage = "OpenTelemetryMiddleware"
    THEN {"tool", "resource", "prompt"}
    ELSE {"tool", "resource"}

\* context.method: missing, empty, or the method of the request.
DefaultMethod(kind) ==
    IF kind = "tool" THEN "tools/call"
    ELSE IF kind = "resource" THEN "resources/read"
    ELSE "prompts/get"

MethodArgs(kind) == {None, Some(""), Some(DefaultMethod(kind))}

\* context.message.name or .uri: missing, empty, the word "unknown", a name.
TargetArgs == {None, Some(""), Some("unknown"), Some("budget")}

\* The access token of the request: none, one without claims, or one whose
\* claims hold an oid, a sub, both or neither.
ClaimSets ==
    {{}, {<<"oid", "u1">>}, {<<"sub", "u2">>}, {<<"oid", "u1">>, <<"sub", "u2">>}}

Tokens == {None} \cup {Some([claims |-> c]) : c \in {None} \cup {Some(m) : m \in ClaimSets}}

\* What the wrapped handler does: it returns a result, or raises an
\* Exception whose str() is msg (empty for an exception raised without a
\* message), or a BaseException that is no Exception (a cancellation).
NoOutcome == [how |-> "none", msg |-> "", exception |-> FALSE]
HandlerOutcomes ==
    {[how |-> "result", msg |-> "done", exception |-> FALSE],
     [how |-> "raise", msg |-> "boom", exception |-> TRUE],
     [how |-> "raise", msg |-> "", exception |-> TRUE],
     [how |-> "raise", msg |-> "", exception |-> FALSE]}

\* claims.get(name, default)
claims_get(claims, name, default) ==
    IF \E p \in claims : p[1] = name
    THEN Some((CHOOSE p \in claims : p[1] = name)[2])
    ELSE default

\* UserAuthMiddleware._get_user_id with sub before oid.
get_user_id_sub_first(token) ==
    IF token = None \/ token[1].claims = None THEN None
    ELSE claims_get(token[1].claims[1], "sub",
                    claims_get(token[1].claims[1], "oid", None))

\* UserAuthMiddleware._get_user_id
get_user_id(token) ==
    IF token = None \/ token[1].claims = None THEN None
    ELSE claims_get(token[1].claims[1], "oid",
                    claims_get(token[1].claims[1], "sub", None))

\* OpenTelemetryMiddleware._span_name
span_name(method_name, target) ==
    IF target # None /\ target[1] # ""
    THEN method_name \o " " \o target[1]
    ELSE method_name

\* str(getattr(context, "method", "")) or the default of the hook
method_name(kind, method) ==
    IF method = None \/ method[1] = "" THEN DefaultMethod(kind) ELSE method[1]

\* The target attribute of the span: tool_name, resource_uri, str(prompt_name).
target_attribute(kind, target) ==
    IF kind = "tool"
    THEN IF target = None \/ target[1] = "" THEN "unknown" ELSE target[1]
    ELSE IF target = None THEN "unknown" ELSE target[1]

\* The target each hook hands to _span_name.
span_target(kind, target) ==
    IF kind = "tool" THEN Some(target_attribute(kind, target))
    ELSE IF target_attribute(kind, target) # "unknown"
         THEN Some(target_attribute(kind, target))
         ELSE None

\* The span tracer.start_as_current_span returns.
NoSpan ==
    [open |-> FALSE, name |-> "", method |-> "", target |-> "",
     operation |-> None, success |-> None, error |-> None,
     status |-> "UNSET", description |-> "", exceptions |-> 0, ended |-> 0]

start_span(kind, method, target) ==
    [NoSpan EXCEPT !.open = TRUE,
                   !.name = span_name(method_name(kind, method), span_target(kind, target)),
                   !.method = method_name(kind, method),
                   !.target = target_attribute(kind, target),
                   !.operation = IF kind = "tool" THEN Some("execute_tool") ELSE None]

\* The try block of each hook of OpenTelemetryMiddleware: what it records on
\* the span when call_next has returned or raised.  except Exception does not
\* catch a BaseException.
record_outcome(span, outcome) ==
    IF outcome.how = "result"
    THEN [span EXCEPT !.success = Some(TRUE), !.status = "OK"]
    ELSE IF outcome.exception
    THEN [span EXCEPT !.success = Some(FALSE), !.error = Some(outcome.msg),
                      !.status = "ERROR",
                      !.description = outcome.msg, !.exceptions = @ + 1]
    ELSE span

\* The per-request state: fastmcp_context.set_state and get_state.
NoState == [user_id |-> None, keys |-> {}]
set_state(state, value) == [user_id |-> value, keys |-> state.keys \cup {"user_id"}]
get_state(state) == state.user_id

\* No invocation in the chain.
IdleRequest ==
    [pc |-> "idle", stage |-> 0, kind |-> "tool", method |-> None,
     target |-> None, token |-> None, has_context |-> FALSE,
     state |-> NoState, span |-> NoSpan, outcome |-> NoOutcome,
     handler_saw |-> None, handler_span |-> NoSpan, trace |-> <<>>,
     answer |-> NoOutcome]

\* ------------------------------------------------- the add_user_expense tool
\* The amounts a caller passes: negative, zero, positive.
Amounts == {-1, 0, 1}

\* Access tokens whose oid or sub claim is the empty string, next to Tokens.
EmptyClaimSets ==
    {{<<"oid", "">>}, {<<"oid", "">>, <<"sub", "u2">>}, {<<"sub", "">>}}
ExpenseTokens ==
    Tokens \cup {Some([claims |-> Some(m)]) : m \in EmptyClaimSets}

\* What add_user_expense returns before it builds the item: the message of
\* the check that fails, none when both checks pass.
\* The amount check letting zero through.
add_user_expense_refusal_zero_passes(amount, user_id) ==
    IF amount < 0 THEN Some("Error: Amount must be positive")
    ELSE IF user_id = None \/ user_id[1] = ""
    THEN Some("Error: Authentication required (no user_id present)")
    ELSE None

add_user_expense_refusal(amount, user_id) ==
    IF amount <= 0 THEN Some("Error: Amount must be positive")
    ELSE IF user_id = None \/ user_id[1] = ""
    THEN Some("Error: Authentication required (no user_id present)")
    ELSE None

\* str(uuid.uuid4()): an id no item of the container has.
uuid4(items) == Cardinality(items) + 1

\* expense_item, of which date, category, description and payment_method are
\* the arguments handed on as they came.
expense_item(expense_id, user_id, amount) ==
    [id |-> expense_id, user_id |-> user_id, amount |-> amount]

\* What add_user_expense returns once create_item has returned or raised e.
add_user_expense_success == "Successfully added expense"
add_user_expense_failure(e) == "Error: Unable to add expense - " \o e

\* str(e) of the exceptions create_item raises.
CreateItemErrors == {"conflict", ""}

\* No call of the tool.  stored and before are history: whether create_item
\* was answered, and the container when the call came in.
IdleTool ==
    [pc |-> "idle", amount |-> 0, item |-> None, stored |-> "none",
     before |-> {}]

\* ------------------------------------------ the post-provision script
AuthProviders == {"entra_proxy", "keycloak", "none"}
ServerUrls == {"https://a.example", "https://b.example"}

\* redirect_uri = f"{server_url}/auth/callback"
redirect_uri(server_url) == server_url \o "/auth/callback"

\* The redirect URIs an application may hold before the script runs.
RegisteredUris ==
    {"http://localhost:8000/auth/callback", "https://vscode.dev/redirect",
     redirect_uri("https://a.example")}

\* get_existing_redirect_uris: the URIs of the application, the empty list
\* when the request raised.
get_existing_redirect_uris(app, answered) ==
    IF answered THEN app.redirect_uris ELSE {}

\* redirect_uris = set(existing_uris); redirect_uris.add(redirect_uri)
redirect_uris(existing_uris, uri) == existing_uris \cup {uri}

\* The tenant without the application.
NoApplication == [registered |-> FALSE, redirect_uris |-> {}]

\* The script before its first run.  runs counts the runs; before, read, end
\* and after are history: the URIs of the application when the run began,
\* how the read and the run ended, and per patch the server URL and the URIs
\* the application held after it.
IdleScript ==
    [pc |-> "idle", provider |-> "none", server_url |-> "", object_id |-> None,
     existing_uris |-> {}, runs |-> 0, before |-> {}, read |-> "none",
     end |-> "none", after |-> <<>>]

\* -------------------------------------------------------------------- state
VARIABLES
    now,        \* the wall clock, in ticks
    container,  \* the documents of the Cosmos DB container
    task,       \* task[t]: the store call task t is running, or its last result
    active,     \* the tasks that issue calls in this run
    collections,\* the collection arguments the callers pass in this run
    calls,      \* calls begun so far
    writes,     \* calls of put and put_many that got to the container so far
    foreign,    \* writes by other writers so far
    lastPut,    \* history: per (collection, key), what the callers know of
                \* the document from the last put or delete call on it
    req,        \* the invocation passing through the middleware chain
    made,       \* history: the document ids _make_document_id has returned
    expenses,   \* the items of the user expenses container
    tool,       \* the call of add_user_expense in progress, or the last one
    graph,      \* the application registration in the tenant
    script      \* the run of the post-provision script, or the last one

\* The variables no store action changes.
fixed == <<active, collections, req, made, expenses, tool, graph, script>>

\* The variables no middleware action changes.
kvstore == <<now, container, task, calls, writes, foreign, lastPut, active,
             collections, made>>
store == <<kvstore, expenses, tool, graph, script>>

vars == <<now, container, task, calls, writes, foreign, lastPut, fixed>>

Collections == {OrDefault(c) : c \in CollectionArgs}
Addresses == Collections \X Keys

ReadOps == {"get", "get_many", "ttl", "ttl_many"}
TtlOps == {"ttl", "ttl_many"}
PutOps == {"put", "put_many"}
DeleteOps == {"delete", "delete_many"}

\* A call in progress: its arguments (of the sequences keys and values, the
\* two lengths nk and nv and the elements the loop is at: a handler never looks
\* at a later element before it gets there), its position pc, what it has
\* returned so far (acc), element by element, delete_many's deleted_count and
\* the exception that left the call.  how, seen, at and wrote are history: how
\* each element ended, for a read the key, the lastPut and the clock it saw,
\* and for a put the document it handed to upsert_item.
IdleTask ==
    [pc |-> "idle", op |-> "none", coll |-> None, nk |-> 0, nv |-> 0,
     ttl |-> None, i |-> 0, key |-> None, value |-> None, doc |-> None,
     entry |-> None, acc |-> <<>>, count |-> 0, raised |-> "none",
     how |-> <<>>, seen |-> <<>>, at |-> <<>>, wrote |-> <<>>]

\* lastPut[a].st: "never" (nothing was put), "put" (value, ttl and created_at
\* are those of the put committed last; gone: a read that the container
\* answered has since found the entry absent), "deleted" (a delete call
\* returned true), "absent" (a delete call found nothing), "unknown" (a delete
\* call failed, or another writer wrote the document).
NeverPut ==
    [st |-> "never", value |-> EmptyDict, ttl |-> None, created_at |-> 0,
     gone |-> FALSE]
Known(st) == [NeverPut EXCEPT !.st = st]

Init ==
    /\ now = 0
    /\ container = {}
    /\ task = [t \in Tasks |-> IdleTask]
    /\ active = {"t1"}
    /\ collections \in {{c} : c \in CollectionArgs}
    /\ calls = 0
    /\ writes = 0
    /\ foreign = 0
    /\ lastPut = [a \in Addresses |-> NeverPut]
    /\ req = IdleRequest
    /\ made = {}
    /\ expenses = {}
    /\ tool = IdleTool
    /\ graph = NoApplication
    /\ script = IdleScript

\* The first await of the operation on one key.
FirstAwait(op) ==
    IF op \in ReadOps THEN "read_item"
    ELSE IF op \in PutOps THEN "upsert_item"
    ELSE "delete_item"

\* The task positioned at its i-th element, key k (and value v): a put builds
\* its document before it awaits upsert_item.
AtKey(tk, i, k, v, clock) ==
    [tk EXCEPT !.i = i,
               !.pc = FirstAwait(tk.op),
               !.key = Some(k),
               !.value = IF tk.op \in PutOps THEN Some(v) ELSE None,
               !.entry = None,
               !.doc = IF tk.op \in PutOps
                       THEN Some(put_document(k, v, tk.coll, tk.ttl, clock))
                       ELSE None]

\* A call begins: the loop over the keys is entered, or left at once when
\* there is no key.
Begin(op, coll, nk, nv, x, k, v, clock) ==
    LET tk == [IdleTask EXCEPT !.op = op, !.coll = coll, !.nk = nk, !.nv = nv,
                               !.ttl = x]
    IN IF nk = 0 THEN tk ELSE AtKey(tk, 1, k, v, clock)

\* The operation on the i-th key returned r: the loop goes on to the next
\* element (k, v) or the call returns.
\* get_many leaving the absent entries out of its list.
Returned_skipping_absent(tk, r, h, k, v, clock) ==
    LET tk1 == [tk EXCEPT !.acc = IF tk.op = "get_many" /\ r = None
                                  THEN @ ELSE Append(@, r),
                          !.how = Append(@, h),
                          !.key = None, !.value = None,
                          !.entry = None, !.doc = None]
    IN IF tk.i < tk.nk
       THEN AtKey(tk1, tk.i + 1, k, v, clock)
       ELSE [tk1 EXCEPT !.pc = "idle"]

Returned(tk, r, h, k, v, clock) ==
    LET tk1 == [tk EXCEPT !.acc = Append(@, r), !.how = Append(@, h),
                          !.key = None, !.value = None,
                          !.entry = None, !.doc = None]
    IN IF tk.i < tk.nk
       THEN AtKey(tk1, tk.i + 1, k, v, clock)
       ELSE [tk1 EXCEPT !.pc = "idle"]

\* The exception e leaves the call.
Raised(tk, e) ==
    [tk EXCEPT !.pc = "idle", !.raised = e, !.key = None, !.value = None,
               !.doc = None, !.entry = None]

Address(tk) == <<OrDefault(tk.coll), tk.key[1]>>
DocId(tk) == make_document_id(OrDefault(tk.coll), tk.key[1])
Absent(op) == IF op \in TtlOps THEN <<None, None>> ELSE None

\* The next elements of keys and values, drawn when the loop gets to them.
NextKeys(tk) == IF tk.i < tk.nk THEN Keys ELSE {"a"}
NextValues(tk) == IF tk.i < tk.nk THEN Values ELSE {EmptyDict}

CanCall(t) == t \in active /\ task[t].pc = "idle" /\ calls < MaxCalls
CanCallBatch(t) == t \in active /\ task[t].pc = "idle" /\ calls < MaxBatchCalls

StartCall(t, tk) ==
    /\ task' = [task EXCEPT ![t] = tk]
    /\ calls' = calls + 1
    /\ writes' = IF tk.pc = "upsert_item" THEN writes + 1 ELSE writes
    /\ UNCHANGED <<now, container, foreign, lastPut, fixed>>

\* ------------------------------------------------- the calls of the store
get(t) ==
    \E k \in Keys, c \in collections :
        /\ CanCall(t)
        /\ StartCall(t, Begin("get", c, 1, 0, None, k, EmptyDict, now))

get_many(t) ==
    \E n \in BatchLengths, k \in Keys, c \in collections :
        /\ CanCallBatch(t)
        /\ StartCall(t, Begin("get_many", c, n, 0, None, k, EmptyDict, now))

ttl(t) ==
    \E k \in Keys, c \in collections :
        /\ CanCall(t)
        /\ StartCall(t, Begin("ttl", c, 1, 0, None, k, EmptyDict, now))

ttl_many(t) ==
    \E n \in BatchLengths, k \in Keys, c \in collections :
        /\ CanCallBatch(t)
        /\ StartCall(t, Begin("ttl_many", c, n, 0, None, k, EmptyDict, now))

put(t) ==
    \E k \in Keys, v \in Values, c \in collections, x \in TtlArgs :
        /\ CanCall(t)
        /\ writes < MaxWriteCalls
        /\ StartCall(t, Begin("put", c, 1, 1, x, k, v, now))

\* put_many checks the two lengths before anything else.
\* put_many refusing only the keys that have no value.
put_many_begin_one_sided(c, nk, nv, x, k, v, clock) ==
    IF nk > nv
    THEN Raised([IdleTask EXCEPT !.op = "put_many", !.coll = c, !.nk = nk,
                                 !.nv = nv, !.ttl = x], "ValueError")
    ELSE Begin("put_many", c, nk, nv, x, k, v, clock)

put_many_begin(c, nk, nv, x, k, v, clock) ==
    IF nk # nv
    THEN Raised([IdleTask EXCEPT !.op = "put_many", !.coll = c, !.nk = nk,
                                 !.nv = nv, !.ttl = x], "ValueError")
    ELSE Begin("put_many", c, nk, nv, x, k, v, clock)

put_many(t) ==
    \E nk \in BatchLengths, nv \in BatchLengths, k \in Keys, v \in Values,
       c \in collections, x \in TtlArgs :
        /\ CanCallBatch(t)
        /\ nk = nv => writes < MaxBatchWriteCalls
        /\ StartCall(t, put_many_begin(c, nk, nv, x, k, v, now))

delete(t) ==
    \E k \in Keys, c \in collections :
        /\ CanCall(t)
        /\ StartCall(t, Begin("delete", c, 1, 0, None, k, EmptyDict, now))

delete_many(t) ==
    \E n \in BatchLengths, k \in Keys, c \in collections :
        /\ CanCallBatch(t)
        /\ StartCall(t, Begin("delete_many", c, n, 0, None, k, EmptyDict, now))

\* ------------------------------------------------ the awaits of get and ttl
\* What the try block of get and of ttl makes of the container's answer:
\* "not_found" (CosmosResourceNotFoundError), "malformed" (from_dict raises),
\* "expired" or "value".
entry_of(item) == IF item.entry = None THEN EmptyEntryDict ELSE item.entry[1]

read_outcome(found, clock) ==
    IF found = {} THEN "not_found"
    ELSE LET data == entry_of(CHOOSE d \in found : TRUE)
         IN IF from_dict_raises(data) THEN "malformed"
            ELSE IF is_expired(from_dict(data, clock), clock) THEN "expired"
            ELSE "value"

\* The except clauses of get and of ttl: the read failed (h is "not_found",
\* "malformed" or "error", a failure of the transport) and absent is returned.
\* get and ttl without their except clauses: the error leaves the call.
read_failed_raises(tk, h, k, clock) ==
    Raised([tk EXCEPT !.how = Append(@, h)], "Exception")

read_failed(tk, h, k, clock) == Returned(tk, Absent(tk.op), h, k, EmptyDict, clock)

\* The history of a put whose entry a read found absent.
MarkGone(p, h) ==
    IF p.st = "put" /\ h \in {"not_found", "expired"}
    THEN [p EXCEPT !.gone = TRUE]
    ELSE p

ReadItem(t) ==
    /\ task[t].pc = "read_item"
    /\ \E answered \in BOOLEAN, k \in NextKeys(task[t]) :
        LET tk == [task[t] EXCEPT
                      !.seen = Append(@, [key |-> task[t].key[1],
                                          put |-> lastPut[Address(task[t])]]),
                      !.at = Append(@, now)]
            found == read_item(container, DocId(tk), OrDefault(tk.coll))
            h == IF answered THEN read_outcome(found, now) ELSE "error"
            entry == from_dict(entry_of(CHOOSE d \in found : TRUE), now)
        IN /\ task' = [task EXCEPT ![t] =
                 IF h = "expired" THEN [tk EXCEPT !.pc = "cleanup"]
                 ELSE IF h = "value" /\ tk.op \in TtlOps
                      THEN [tk EXCEPT !.pc = "ttl_seconds", !.entry = Some(entry)]
                 ELSE IF h = "value"
                      THEN Returned(tk, Some(dict(entry.value)), h, k, EmptyDict, now)
                 ELSE read_failed(tk, h, k, now)]
           /\ lastPut' = [lastPut EXCEPT ![Address(tk)] = MarkGone(@, h)]
    /\ UNCHANGED <<now, container, calls, writes, foreign, fixed>>

\* ttl reads the clock a second time for the remaining seconds.
TtlSeconds(t) ==
    /\ task[t].pc = "ttl_seconds"
    /\ \E k \in NextKeys(task[t]) :
        LET tk == [task[t] EXCEPT !.at[Len(task[t].at)] = now]
            entry == tk.entry[1]
        IN task' = [task EXCEPT ![t] =
               Returned(tk, <<Some(dict(entry.value)), ttl_seconds(entry, now)>>,
                        "value", k, EmptyDict, now)]
    /\ UNCHANGED <<now, container, calls, writes, foreign, lastPut, fixed>>

\* CosmosDBStore.delete: what it returns and what it leaves in the container,
\* when delete_item is answered and when it fails.
\* A delete that returns true whenever delete_item does not fail.
delete_returns_true(cont, id, pk, answered) == answered

delete_returns(cont, id, pk, answered) == answered /\ read_item(cont, id, pk) # {}

\* A delete that removes nothing.
delete_leaves_all(cont, id, pk, answered) == cont

delete_leaves(cont, id, pk, answered) ==
    IF answered THEN delete_item(cont, id, pk) ELSE cont

\* get and ttl delete the expired entry they read and return absent, whatever
\* delete returns ("expired_kept": its delete_item failed).
Cleanup(t) ==
    /\ task[t].pc = "cleanup"
    /\ \E answered \in BOOLEAN, k \in NextKeys(task[t]) :
        LET tk == task[t]
        IN /\ container' = delete_leaves(container, DocId(tk), OrDefault(tk.coll), answered)
           /\ task' = [task EXCEPT ![t] =
                  Returned(tk, Absent(tk.op),
                           IF answered THEN "expired" ELSE "expired_kept",
                           k, EmptyDict, now)]
    /\ UNCHANGED <<now, calls, writes, foreign, lastPut, fixed>>

\* ---------------------------------------------- the await of put and delete
\* The except clause of put: the error is logged and raised again.
\* A batch that goes on with the pairs left and raises at its end.
upsert_failed_deferred(tk, k, v, clock) ==
    [Returned(tk, None, "error", k, v, clock) EXCEPT !.raised = "Exception"]

\* A put that logs the error and returns.
upsert_failed_swallowed(tk, k, v, clock) == Returned(tk, None, "error", k, v, clock)

upsert_failed(tk, k, v, clock) ==
    Raised([tk EXCEPT !.how = Append(@, "error")], "Exception")

UpsertItem(t) ==
    /\ task[t].pc = "upsert_item"
    /\ \E answered \in BOOLEAN, k \in NextKeys(task[t]), v \in NextValues(task[t]) :
        LET tk == [task[t] EXCEPT !.seen = Append(@, [key |-> task[t].key[1],
                                                     put |-> lastPut[Address(task[t])]]),
                                  !.wrote = Append(@, task[t].doc[1])]
        IN IF answered
           THEN /\ container' = upsert_item(container, tk.doc[1])
                /\ task' = [task EXCEPT ![t] = Returned(tk, None, "ok", k, v, now)]
                /\ lastPut' = [lastPut EXCEPT ![Address(tk)] =
                       [st |-> "put", value |-> tk.value[1], ttl |-> tk.ttl,
                        created_at |-> fromisoformat(tk.doc[1].entry[1].created_at[1]),
                        gone |-> FALSE]]
           ELSE /\ task' = [task EXCEPT ![t] = upsert_failed(tk, k, v, now)]
                /\ UNCHANGED <<container, lastPut>>
    /\ UNCHANGED <<now, calls, writes, foreign, fixed>>

\* delete_many counts the calls of delete that returned true.
\* delete_many counting every call of delete.
deleted_count_all(count, r) == count + 1

deleted_count(count, r) == IF r THEN count + 1 ELSE count

DeleteItem(t) ==
    /\ task[t].pc = "delete_item"
    /\ \E answered \in BOOLEAN, k \in NextKeys(task[t]) :
        LET tk == [task[t] EXCEPT !.seen = Append(@, [key |-> task[t].key[1],
                                                     put |-> lastPut[Address(task[t])]])]
            r == delete_returns(container, DocId(tk), OrDefault(tk.coll), answered)
            h == IF ~answered THEN "error" ELSE IF r THEN "deleted" ELSE "not_found"
        IN /\ container' = delete_leaves(container, DocId(tk), OrDefault(tk.coll), answered)
           /\ task' = [task EXCEPT ![t] =
                  [Returned(tk, r, h, k, EmptyDict, now) EXCEPT
                      !.count = IF tk.op = "delete_many" THEN deleted_count(@, r) ELSE @]]
           /\ lastPut' = [lastPut EXCEPT ![Address(tk)] =
                  Known(IF ~answered THEN "unknown" ELSE IF r THEN "deleted" ELSE "absent")]
    /\ UNCHANGED <<now, calls, writes, foreign, fixed>>

\* ----------------------------------------------------------- the environment
Tick ==
    /\ now < MaxTime
    /\ now' = now + 1
    /\ UNCHANGED <<container, task, calls, writes, foreign, lastPut, fixed>>

ForeignWrite ==
    /\ foreign < MaxForeign
    /\ \E a \in {OrDefault(c) : c \in collections} \X Keys :
        \E d \in ForeignDocuments(a[1], a[2]) :
            /\ container' = upsert_item(container, d)
            /\ lastPut' = [lastPut EXCEPT ![a] = Known("unknown")]
    /\ foreign' = foreign + 1
    /\ UNCHANGED <<now, task, calls, writes, fixed>>

\* The awaits of the calls in progress.
Step(t) ==
    \/ ReadItem(t)
    \/ TtlSeconds(t)
    \/ Cleanup(t)
    \/ UpsertItem(t)
    \/ DeleteItem(t)

\* A run of single-key calls, beside another writer of the container.
Next ==
    \/ \E t \in Tasks :
        \/ get(t)
        \/ ttl(t)
        \/ put(t)
        \/ delete(t)
        \/ Step(t)
    \/ Tick
    \/ ForeignWrite

Spec == Init /\ [][Next]_vars

\* A run of batch calls.
NextMany ==
    \/ \E t \in Tasks :
        \/ get_many(t)
        \/ ttl_many(t)
        \/ put_many(t)
        \/ delete_many(t)
        \/ Step(t)
    \/ Tick

SpecMany == Init /\ [][NextMany]_vars

\* A run of single-key calls on several collections, with the collection
\* omitted, given as the default, and given as another one.
FrameCollectionArgs == {None, Some(default_collection), Some("clients")}

InitFrame ==
    /\ now = 0
    /\ container = {}
    /\ task = [t \in Tasks |-> IdleTask]
    /\ active = {"t1"}
    /\ collections = FrameCollectionArgs
    /\ calls = 0
    /\ writes = 0
    /\ foreign = 0
    /\ lastPut = [a \in Addresses |-> NeverPut]
    /\ req = IdleRequest
    /\ made = {}
    /\ expenses = {}
    /\ tool = IdleTool
    /\ graph = NoApplication
    /\ script = IdleScript

NextFrame ==
    \/ \E t \in Tasks :
        \/ get(t)
        \/ ttl(t)
        \/ put(t)
        \/ delete(t)
        \/ Step(t)
    \/ Tick

SpecFrame == InitFrame /\ [][NextFrame]_vars

\* Two callers at once, after put("a", v, ttl=MaxTtl) has returned at time 0:
\* every coroutine of one caller may be suspended at its await while the
\* other caller runs.
RaceStart == put_document("a", CHOOSE v \in Values : TRUE, None, Some(MaxTtl), 0)

InitRace ==
    /\ now = 0
    /\ container = {RaceStart}
    /\ task = [t \in Tasks |-> IdleTask]
    /\ active = Tasks
    /\ collections = {None}
    /\ calls = 0
    /\ writes = 0
    /\ foreign = 0
    /\ lastPut = [a \in Addresses |->
                    IF a = <<default_collection, "a">>
                    THEN [st |-> "put", value |-> CHOOSE v \in Values : TRUE,
                          ttl |-> Some(MaxTtl), created_at |-> 0, gone |-> FALSE]
                    ELSE NeverPut]
    /\ req = IdleRequest
    /\ made = {}
    /\ expenses = {}
    /\ tool = IdleTool
    /\ graph = NoApplication
    /\ script = IdleScript

NextRace ==
    \/ \E t \in Tasks :
        \/ get(t)
        \/ ttl(t)
        \/ put(t)
        \/ ReadItem(t)
        \/ TtlSeconds(t)
        \/ Cleanup(t)
        \/ UpsertItem(t)
    \/ Tick

SpecRace == InitRace /\ [][NextRace]_vars

\* ------------------------------------------- an invocation through the chain
\* req.pc is "enter" while the invocation goes down the stages (req.stage is
\* the stage it is about to enter, Len(Chain) + 1 for the wrapped handler),
\* "exit" while the result or the exception comes back up (req.stage is the
\* stage it returns to, 0 for the caller), and "responded" at the caller.
\* handler_saw, handler_span and trace are history: the user_id and the span
\* when the handler ran, and the states the invocation has passed through.
Trace(r, state) == [r EXCEPT !.trace = Append(@, state)]

Receive ==
    /\ req.pc \in {"idle", "responded"}
    /\ \E kind \in Kinds, token \in Tokens, target \in TargetArgs, c \in BOOLEAN :
        \E method \in MethodArgs(kind) :
            req' = [IdleRequest EXCEPT !.pc = "enter", !.stage = 1,
                                       !.kind = kind, !.method = method,
                                       !.target = target, !.token = token,
                                       !.has_context = c,
                                       !.trace = <<"Received">>]
    /\ UNCHANGED store

AtStage(pc, name) ==
    /\ req.pc = pc
    /\ req.stage \in 1..Len(Chain)
    /\ Chain[req.stage] = name

\* on_call_tool, on_read_resource, on_get_prompt up to await call_next
OpenTelemetry_enter ==
    /\ AtStage("enter", "OpenTelemetryMiddleware")
    /\ req' = Trace([req EXCEPT !.span = start_span(req.kind, req.method, req.target),
                                !.stage = @ + 1], "SpanOpen")
    /\ UNCHANGED store

\* on_call_tool, on_read_resource up to await call_next; a prompt retrieval
\* goes through the hook Middleware inherits, which calls call_next.
UserAuth_enter ==
    /\ AtStage("enter", "UserAuthMiddleware")
    /\ req' = IF req.kind \in Hooks("UserAuthMiddleware")
              THEN Trace([req EXCEPT
                             !.state = IF req.has_context
                                       THEN set_state(@, get_user_id(req.token))
                                       ELSE @,
                             !.stage = @ + 1], "AuthResolved")
              ELSE [req EXCEPT !.stage = @ + 1]
    /\ UNCHANGED store

\* The wrapped handler runs and returns or raises.
call_handler ==
    /\ req.pc = "enter"
    /\ req.stage = Len(Chain) + 1
    /\ \E o \in HandlerOutcomes :
        req' = Trace([req EXCEPT !.outcome = o,
                                 !.handler_saw = IF req.has_context
                                                 THEN get_state(req.state)
                                                 ELSE None,
                                 !.handler_span = req.span,
                                 !.pc = "exit",
                                 !.stage = Len(Chain)], "HandlerRunning")
    /\ UNCHANGED store

\* return await call_next(context)
UserAuth_exit ==
    /\ AtStage("exit", "UserAuthMiddleware")
    /\ req' = [req EXCEPT !.stage = @ - 1]
    /\ UNCHANGED store

\* The state in which the span is closed.
Closed(span) ==
    IF span.success = Some(TRUE) THEN "SpanClosedSuccess"
    ELSE IF span.success = Some(FALSE) THEN "SpanClosedError"
    ELSE "SpanClosed"

\* The try block and the end of the with block: the outcome is recorded, the
\* span ends, and the result is returned or the exception raised again.
OpenTelemetry_exit ==
    /\ AtStage("exit", "OpenTelemetryMiddleware")
    /\ LET span == [record_outcome(req.span, req.outcome) EXCEPT
                       !.open = FALSE, !.ended = @ + 1]
       IN req' = Trace([req EXCEPT !.span = span, !.stage = @ - 1], Closed(span))
    /\ UNCHANGED store

Respond ==
    /\ req.pc = "exit"
    /\ req.stage = 0
    /\ req' = Trace([req EXCEPT !.pc = "responded", !.answer = req.outcome],
                    "Responded")
    /\ UNCHANGED store

NextChain ==
    \/ Receive
    \/ OpenTelemetry_enter
    \/ UserAuth_enter
    \/ call_handler
    \/ UserAuth_exit
    \/ OpenTelemetry_exit
    \/ Respond

SpecChain == Init /\ [][NextChain]_vars

\* ------------------------------------------------------ the document ids
\* Collections and keys with and without the separator of the document id.
IdCollections == {"a", "a:b", "default"}
IdKeys == {"c", "b:c", "a"}

MakeDocumentId ==
    /\ \E c \in IdCollections, k \in IdKeys :
        made' = made \cup {[collection |-> c, key |-> k,
                            id |-> make_document_id(c, k)]}
    /\ UNCHANGED <<now, container, task, calls, writes, foreign, lastPut,
                   active, collections, req, expenses, tool, graph, script>>

NextIds == MakeDocumentId

SpecIds == Init /\ [][NextIds]_vars

\* ------------------------------------------- a call of add_user_expense
\* tool.pc is "called" from the request to the handler's first line,
\* "create_item" while the handler awaits the container, "returned" after.
\* The request comes in: tools/call of add_user_expense with its arguments.
call_add_user_expense ==
    /\ req.pc \in {"idle", "responded"}
    /\ Cardinality(expenses) < MaxExpenses
    /\ \E amount \in Amounts, token \in ExpenseTokens, c \in BOOLEAN :
        \E method \in MethodArgs("tool") :
            /\ req' = [IdleRequest EXCEPT !.pc = "enter", !.stage = 1,
                                          !.kind = "tool", !.method = method,
                                          !.target = Some("add_user_expense"),
                                          !.token = token,
                                          !.has_context = c,
                                          !.trace = <<"Received">>]
            /\ tool' = [IdleTool EXCEPT !.pc = "called", !.amount = amount,
                                        !.before = expenses]
    /\ UNCHANGED <<kvstore, expenses, graph, script>>

\* add_user_expense up to await cosmos_container.create_item, or to the
\* return of one of its two checks.
add_user_expense ==
    /\ req.pc = "enter"
    /\ req.stage = Len(Chain) + 1
    /\ tool.pc = "called"
    /\ LET user_id == IF req.has_context THEN get_state(req.state) ELSE None
           refusal == add_user_expense_refusal(tool.amount, user_id)
       IN IF refusal # None
          THEN /\ req' = Trace([req EXCEPT
                                   !.outcome = [how |-> "result",
                                                msg |-> refusal[1],
                                                exception |-> FALSE],
                                   !.pc = "exit",
                                   !.stage = Len(Chain)], "HandlerRunning")
               /\ tool' = [tool EXCEPT !.pc = "returned"]
          ELSE /\ req' = Trace(req, "HandlerRunning")
               /\ tool' = [tool EXCEPT
                              !.pc = "create_item",
                              !.item = Some(expense_item(uuid4(expenses),
                                                         user_id[1],
                                                         tool.amount))]
    /\ UNCHANGED <<kvstore, expenses, graph, script>>

\* create_item returns and the item is in the container, or it raises and
\* except Exception turns the exception into the returned message.
CreateItem ==
    /\ tool.pc = "create_item"
    /\ \/ /\ expenses' = expenses \cup {tool.item[1]}
          /\ tool' = [tool EXCEPT !.pc = "returned", !.stored = "answered"]
          /\ req' = [req EXCEPT !.outcome = [how |-> "result",
                                             msg |-> add_user_expense_success,
                                             exception |-> FALSE],
                                !.pc = "exit", !.stage = Len(Chain)]
       \/ /\ \E e \in CreateItemErrors :
               req' = [req EXCEPT !.outcome = [how |-> "result",
                                               msg |-> add_user_expense_failure(e),
                                               exception |-> FALSE],
                                  !.pc = "exit", !.stage = Len(Chain)]
          /\ tool' = [tool EXCEPT !.pc = "returned", !.stored = "failed"]
          /\ UNCHANGED expenses
    /\ UNCHANGED <<kvstore, graph, script>>

NextExpense ==
    \/ call_add_user_expense
    \/ OpenTelemetry_enter
    \/ UserAuth_enter
    \/ add_user_expense
    \/ CreateItem
    \/ UserAuth_exit
    \/ OpenTelemetry_exit
    \/ Respond

SpecExpense == Init /\ [][NextExpense]_vars

\* ------------------------------------- runs of the post-provision script
\* The application is registered with some redirect URIs, or is not there.
InitRedirect ==
    /\ now = 0
    /\ container = {}
    /\ task = [t \in Tasks |-> IdleTask]
    /\ active = {"t1"}
    /\ collections = {None}
    /\ calls = 0
    /\ writes = 0
    /\ foreign = 0
    /\ lastPut = [a \in Addresses |-> NeverPut]
    /\ req = IdleRequest
    /\ made = {}
    /\ expenses = {}
    /\ tool = IdleTool
    /\ graph \in {NoApplication}
                 \cup {[registered |-> TRUE, redirect_uris |-> u] :
                         u \in SUBSET RegisteredUris}
    /\ script = IdleScript

\* get_application: the object id of the application, none when the listing
\* does not hold it or the request raised.
get_application(app, answered) ==
    IF answered /\ app.registered THEN Some("object-id") ELSE None

\* main up to await get_application, or to the return of the provider check.
main ==
    /\ script.pc \in {"idle", "done"}
    /\ script.runs < MaxRuns
    /\ \E provider \in AuthProviders, server_url \in ServerUrls :
        script' = [script EXCEPT
                      !.provider = provider,
                      !.server_url = server_url,
                      !.object_id = None,
                      !.existing_uris = {},
                      !.runs = @ + 1,
                      !.before = graph.redirect_uris,
                      !.read = "none",
                      !.pc = IF provider # "entra_proxy"
                             THEN "done" ELSE "get_application",
                      !.end = IF provider # "entra_proxy"
                              THEN "skipped" ELSE "none"]
    /\ UNCHANGED <<kvstore, req, expenses, tool, graph>>

\* object_id = await get_application(...); if not object_id: return
GetApplication ==
    /\ script.pc = "get_application"
    /\ \E answered \in BOOLEAN :
        LET object_id == get_application(graph, answered)
        IN script' = IF object_id = None
                     THEN [script EXCEPT !.pc = "done", !.end = "not_found"]
                     ELSE [script EXCEPT !.object_id = object_id,
                                         !.pc = "get_existing_redirect_uris"]
    /\ UNCHANGED <<kvstore, req, expenses, tool, graph>>

\* existing_uris = await get_existing_redirect_uris(...)
GetExistingRedirectUris ==
    /\ script.pc = "get_existing_redirect_uris"
    /\ \E answered \in BOOLEAN :
        script' = [script EXCEPT
                      !.existing_uris = get_existing_redirect_uris(graph, answered),
                      !.read = IF answered THEN "answered" ELSE "failed",
                      !.pc = "patch"]
    /\ UNCHANGED <<kvstore, req, expenses, tool, graph>>

\* await ....patch(app): the application's redirect URIs become the list of
\* the request, or the request raises and main ends with the exception.
Patch ==
    /\ script.pc = "patch"
    /\ \/ /\ graph' = [graph EXCEPT
                          !.redirect_uris =
                              redirect_uris(script.existing_uris,
                                            redirect_uri(script.server_url))]
          /\ script' = [script EXCEPT
                           !.pc = "done", !.end = "updated",
                           !.after = Append(@, [server_url |-> script.server_url,
                                                uris |-> graph'.redirect_uris])]
       \/ /\ script' = [script EXCEPT !.pc = "done", !.end = "raised"]
          /\ UNCHANGED graph
    /\ UNCHANGED <<kvstore, req, expenses, tool>>

NextRedirect ==
    \/ main
    \/ GetApplication
    \/ GetExistingRedirectUris
    \/ Patch

SpecRedirect == InitRedirect /\ [][NextRedirect]_vars

\* What the call returned to its caller, once tk.pc is "idle" and nothing was
\* raised.
Result(tk) ==
    IF tk.op \in {"get", "ttl", "delete"} THEN tk.acc[1]
    ELSE IF tk.op = "delete_many" THEN tk.count
    ELSE IF tk.op \in PutOps THEN None
    ELSE tk.acc

TypeOK ==
    /\ now \in 0..MaxTime
    /\ calls \in 0..MaxCalls
    /\ \A t \in Tasks : task[t].pc \in
           {"idle", "read_item", "ttl_seconds", "cleanup", "upsert_item", "delete_item"}

\* ------------------------------------------------------------- properties
\* The put recorded in p set an expiration, at ExpiresAt(p).
HasTtl(p) == p.ttl # None /\ p.ttl[1] > 0
ExpiresAt(p) == p.created_at + p.ttl[1]

\* The step of task t that ends its await at pc with the outcome h.
Ends(t, pc, h) == task[t].pc = pc /\ task'[t].how = Append(task[t].how, h)

\* The document a finished single-key call of task t was about.
DocOf(t) ==
    read_item(container,
              make_document_id(OrDefault(task[t].coll), task[t].seen[1].key),
              OrDefault(task[t].coll))

\* C1: a get whose read the container answers, of a key whose last put set no
\* expiration and was followed by no delete call and no write of another
\* writer, returns the value that was put.
C1_PutThenGet ==
    \A t \in Tasks : \A j \in 1..Len(task[t].acc) :
        LET tk == task[t]
            p == tk.seen[j].put
        IN (tk.op = "get" /\ p.st = "put" /\ ~HasTtl(p) /\ tk.how[j] # "error")
               => tk.acc[j] = Some(p.value)

C1_Witness ==
    \E t \in Tasks :
        /\ task[t].op = "get" /\ task[t].pc = "idle"
        /\ task[t].how = <<"value">>
        /\ task[t].seen[1].put.st = "put"
        /\ task[t].seen[1].put.ttl = None
        /\ task[t].acc = <<Some(task[t].seen[1].put.value)>>

\* C2: after a put with ttl t > 0, created at created_at, a get whose read the
\* container answers returns the value while the clock is before
\* created_at + t and absent once the clock is past it; and once a read has
\* found the entry absent, every later get returns absent.
C2_Expiry ==
    \A t \in Tasks : \A j \in 1..Len(task[t].acc) :
        LET tk == task[t]
            p == tk.seen[j].put
        IN (tk.op = "get" /\ p.st = "put" /\ HasTtl(p) /\ tk.how[j] # "error")
               => /\ tk.at[j] < ExpiresAt(p) => tk.acc[j] = Some(p.value)
                  /\ tk.at[j] > ExpiresAt(p) => tk.acc[j] = None
                  /\ p.gone => tk.acc[j] = None

C2_Witness ==
    \E t \in Tasks :
        /\ task[t].op = "get" /\ task[t].pc = "idle"
        /\ task[t].seen[1].put.st = "put"
        /\ HasTtl(task[t].seen[1].put)
        /\ task[t].seen[1].put.gone
        /\ task[t].at[1] > ExpiresAt(task[t].seen[1].put)
        /\ task[t].how = <<"not_found">>
        /\ task[t].acc = <<None>>

\* C3, as the specification states it: when get or ttl has read an expired
\* document, it returns absent and the document is no longer in the store.
C3_ExpiredIsDeleted ==
    [][\A t \in Tasks : \A h \in {"expired", "expired_kept"} :
          Ends(t, "cleanup", h)
              => /\ task'[t].acc = Append(task[t].acc, Absent(task[t].op))
                 /\ read_item(container', DocId(task[t]), OrDefault(task[t].coll)) = {}]_vars

\* C3, amended: when get or ttl has read an expired document, it returns
\* absent; the document is no longer in the store when the delete it issued
\* was carried out, and the store is as it was when that delete failed.
C3_ExpiredIsDeletedUnlessDeleteFails ==
    [][\A t \in Tasks :
          /\ Ends(t, "cleanup", "expired")
                => /\ task'[t].acc = Append(task[t].acc, Absent(task[t].op))
                   /\ read_item(container', DocId(task[t]), OrDefault(task[t].coll)) = {}
          /\ Ends(t, "cleanup", "expired_kept")
                => /\ task'[t].acc = Append(task[t].acc, Absent(task[t].op))
                   /\ container' = container]_vars

C3_Witness ==
    \E t \in Tasks :
        /\ task[t].op \in {"get", "ttl"} /\ task[t].pc = "idle"
        /\ task[t].how = <<"expired">>
        /\ task[t].acc = <<Absent(task[t].op)>>
        /\ HasTtl(task[t].seen[1].put)
        /\ DocOf(t) = {}

\* C4: get and ttl never raise; when the read fails (the transport fails, the
\* stored entry is malformed, or the document is not found) get returns absent
\* and ttl returns (absent, absent), and the store is as it was.
C4_ReadsNeverRaise ==
    [][\A t \in Tasks :
          /\ task'[t].op \in {"get", "ttl"} => task'[t].raised = "none"
          /\ \A h \in {"error", "malformed", "not_found"} :
                (task[t].pc = "read_item"
                   /\ Len(task'[t].how) = Len(task[t].how) + 1
                   /\ Last(task'[t].how) = h)
                    => /\ task'[t].acc = Append(task[t].acc, Absent(task[t].op))
                       /\ task'[t].pc = "idle"
                       /\ container' = container]_vars

C4_Witness ==
    \E t \in Tasks :
        /\ task[t].op = "ttl" /\ task[t].pc = "idle"
        /\ task[t].how = <<"malformed">>
        /\ task[t].acc = <<(<<None, None>>)>>
        /\ task[t].raised = "none"
        /\ DocOf(t) # {}

\* C5: when upsert_item fails during put, the error is raised to the caller
\* and the store, the document at the key included, is as it was.
C5_PutRaises ==
    [][\A t \in Tasks :
          Ends(t, "upsert_item", "error")
              => /\ task'[t].raised = "Exception"
                 /\ task'[t].pc = "idle"
                 /\ task'[t].acc = task[t].acc
                 /\ container' = container]_vars

C5_Witness ==
    \E t \in Tasks :
        /\ task[t].op = "put" /\ task[t].pc = "idle"
        /\ task[t].raised = "Exception"
        /\ task[t].seen[1].put.st = "put"
        /\ \E d \in DocOf(t) :
              d.entry[1].value = Some(task[t].seen[1].put.value)

\* C6: a delete that the container answers returns false and changes nothing
\* when there is no document at the key, and returns true and removes that
\* document alone when there is one; a get whose read the container answers,
\* after a delete that returned true and no put since, returns absent.
C6_Delete ==
    [][/\ \A t \in Tasks : \A h \in {"deleted", "not_found"} :
             Ends(t, "delete_item", h)
                 => LET was == read_item(container, DocId(task[t]),
                                         OrDefault(task[t].coll))
                    IN IF was = {}
                       THEN /\ task'[t].acc = Append(task[t].acc, FALSE)
                            /\ container' = container
                       ELSE /\ task'[t].acc = Append(task[t].acc, TRUE)
                            /\ container' = container \ was
       /\ \A t \in Tasks : \A j \in 1..Len(task'[t].acc) :
             (task'[t].op = "get" /\ task'[t].seen[j].put.st = "deleted"
                 /\ task'[t].how[j] # "error")
                 => task'[t].acc[j] = None]_vars

C6_Witness ==
    \E t \in Tasks :
        /\ task[t].op = "get" /\ task[t].pc = "idle"
        /\ task[t].seen[1].put.st = "deleted"
        /\ task[t].how = <<"not_found">>
        /\ task[t].acc = <<None>>

\* C7: when delete_item fails, delete returns false without raising and the
\* store is as it was; delete returns true exactly when it removed a document,
\* and the count of delete_many is the number of documents it removed.
C7_DeleteFailure ==
    [][\A t \in Tasks :
          /\ Ends(t, "delete_item", "error")
                => /\ task'[t].acc = Append(task[t].acc, FALSE)
                   /\ task'[t].raised = "none"
                   /\ container' = container
          /\ (task[t].pc = "delete_item" /\ task'[t] # task[t])
                => /\ Last(task'[t].acc) = (container' # container)
                   /\ task[t].op = "delete_many"
                         => task'[t].count = task[t].count
                                + (IF container' # container THEN 1 ELSE 0)
          /\ (task'[t].op = "delete_many" /\ task'[t].pc = "idle")
                => Result(task'[t]) = Count(task'[t].how, "deleted")]_vars

C7_Witness ==
    \E t \in Tasks :
        /\ task[t].op = "delete_many" /\ task[t].pc = "idle"
        /\ task[t].how = <<"deleted", "error">>
        /\ task[t].seen[1].key # task[t].seen[2].key
        /\ Result(task[t]) = 1
        /\ read_item(container,
                     make_document_id(OrDefault(task[t].coll), task[t].seen[2].key),
                     OrDefault(task[t].coll)) # {}

\* C8: put_many called with keys and values of different lengths raises a
\* validation error and writes nothing: the store is as it was.
C8_PutManyLengths ==
    [][\A t \in Tasks :
          (task[t].pc = "idle" /\ task'[t] # task[t]
              /\ task'[t].op = "put_many" /\ task'[t].nk # task'[t].nv)
              => /\ task'[t].raised = "ValueError"
                 /\ task'[t].pc = "idle"
                 /\ task'[t].doc = None
                 /\ container' = container]_vars

C8_Witness ==
    \E t \in Tasks :
        /\ task[t].op = "put_many" /\ task[t].pc = "idle"
        /\ task[t].nk # task[t].nv
        /\ task[t].raised = "ValueError"
        /\ container # {}

\* What get returns for a key with the history p when the clock is at clock
\* and the container answers the read.
get_returns(p, clock) ==
    IF p.st = "put" /\ ~(HasTtl(p) /\ clock > ExpiresAt(p))
    THEN Some(p.value)
    ELSE None

\* C9: get_many returns a list as long as keys, whose i-th element is what get
\* returns for the i-th key: the value of a present, unexpired key, and absent
\* otherwise, for a key never written and for a repeated key as well.
C9_GetMany ==
    \A t \in Tasks :
        task[t].op = "get_many"
            => /\ task[t].pc = "idle" => Len(task[t].acc) = task[t].nk
               /\ \A j \in 1..Len(task[t].acc) :
                     (task[t].how[j] # "error" /\ task[t].seen[j].put.st # "unknown")
                         => task[t].acc[j] = get_returns(task[t].seen[j].put, task[t].at[j])

C9_Witness ==
    \E t \in Tasks :
        /\ task[t].op = "get_many" /\ task[t].pc = "idle"
        /\ task[t].nk = 2
        /\ task[t].seen[1].put.st = "put"
        /\ task[t].seen[2].put.st = "never"
        /\ task[t].acc = <<Some(task[t].seen[1].put.value), None>>

\* C10: when ttl returns the value of an entry put with ttl t > 0, the remaining
\* seconds s are there with 0 <= s <= t, and 0 < s when the clock has not moved
\* since the put; the remaining seconds are absent exactly when the entry was
\* put without an expiration.
C10_Ttl ==
    \A t \in Tasks : \A j \in 1..Len(task[t].acc) :
        LET tk == task[t]
            p == tk.seen[j].put
            s == tk.acc[j][2]
        IN (tk.op = "ttl" /\ tk.how[j] = "value")
               => /\ s # None => s[1] >= 0
                  /\ p.st = "put"
                        => /\ tk.acc[j][1] = Some(p.value)
                           /\ (s = None) <=> ~HasTtl(p)
                           /\ HasTtl(p) => s[1] <= p.ttl[1]
                           /\ (HasTtl(p) /\ tk.at[j] = p.created_at) => s[1] > 0

C10_Witness ==
    \E t \in Tasks :
        /\ task[t].op = "ttl" /\ task[t].pc = "idle"
        /\ task[t].how = <<"value">>
        /\ HasTtl(task[t].seen[1].put)
        /\ task[t].at[1] = task[t].seen[1].put.created_at
        /\ task[t].acc = <<(<<Some(task[t].seen[1].put.value), task[t].seen[1].put.ttl>>)>>

\* Task t has returned from a put of key k that upsert_item carried out.
HasPut(t, k) ==
    /\ task[t].op = "put" /\ task[t].pc = "idle"
    /\ task[t].how = <<"ok">>
    /\ task[t].seen[1].key = k

\* C11: the container never holds two documents under one id and partition;
\* and when two callers have each returned from a put on the same key, in any
\* interleaving of their steps, the one document of the key is, whole (value,
\* expires_at and native ttl), the document one of the two puts built.
C11_ConcurrentPuts ==
    /\ \A d \in container : read_item(container, d.id, d.collection) = {d}
    /\ \A t1 \in Tasks : \A t2 \in Tasks \ {t1} : \A k \in Keys :
          (HasPut(t1, k) /\ HasPut(t2, k) /\ task[t1].coll = task[t2].coll)
              => \E d \in {task[t1].wrote[1], task[t2].wrote[1]} :
                    read_item(container, d.id, d.collection) = {d}

\* The put that read the clock first was carried out last.
C11_Witness ==
    \E t1 \in Tasks : \E t2 \in Tasks \ {t1} : \E k \in Keys :
        /\ HasPut(t1, k) /\ HasPut(t2, k)
        /\ task[t1].wrote[1].entry[1].value # task[t2].wrote[1].entry[1].value
        /\ task[t1].wrote[1].ttl # task[t2].wrote[1].ttl
        /\ fromisoformat(task[t1].wrote[1].entry[1].created_at[1])
              < fromisoformat(task[t2].wrote[1].entry[1].created_at[1])
        /\ task[t1].wrote[1] \in container

\* The handler of the invocation has run.
HandlerRan == req.pc \in {"exit", "responded"}

\* C12: when the wrapped handler raises, whatever the kind of call and the
\* exception, the caller of the chain gets that exception and the span has
\* ended with success=false, the status ERROR and an error string that is
\* not empty.
C12_HandlerErrorRecorded ==
    (req.pc = "responded" /\ req.outcome.how = "raise")
        => /\ req.answer = req.outcome
           /\ req.span.ended = 1
           /\ req.span.success = Some(FALSE)
           /\ req.span.status = "ERROR"
           /\ req.span.error # None
           /\ req.span.error[1] # ""

\* The claim the access token resolves to: oid, else sub, else none.
TokenClaim(token) ==
    IF token = None THEN None
    ELSE IF token[1].claims = None THEN None
    ELSE LET claims == token[1].claims[1]
         IN IF \E p \in claims : p[1] = "oid"
            THEN Some((CHOOSE p \in claims : p[1] = "oid")[2])
            ELSE IF \E p \in claims : p[1] = "sub"
            THEN Some((CHOOSE p \in claims : p[1] = "sub")[2])
            ELSE None

\* C13: in an invocation that has a per-request state, the handler finds
\* user_id set exactly when the authentication stage has resolved a claim of
\* the access token (oid, else sub), and then to that claim; the stage never
\* raises: every invocation gets to its handler, without a token or a claim
\* as well.
C13_UserIdIffClaim ==
    /\ req.pc = "enter" => req.outcome = NoOutcome
    /\ (HandlerRan /\ req.has_context)
          => req.handler_saw = IF req.kind \in {"tool", "resource"}
                               THEN TokenClaim(req.token)
                               ELSE None

C13_Witness ==
    /\ req.pc = "responded" /\ req.has_context
    /\ req.kind = "tool"
    /\ req.token = Some([claims |-> Some({<<"oid", "u1">>, <<"sub", "u2">>})])
    /\ req.handler_saw = Some("u1")

StatesOf(kind, o) ==
    <<"Received", "SpanOpen">>
      \o (IF kind \in {"tool", "resource"} THEN <<"AuthResolved">> ELSE <<>>)
      \o <<"HandlerRunning",
           IF o.how = "result" THEN "SpanClosedSuccess"
           ELSE IF o.exception THEN "SpanClosedError"
           ELSE "SpanClosed",
           "Responded">>

C15_EveryKindIntercepted ==
    (HandlerRan /\ req.has_context)
        => /\ "user_id" \in req.state.keys
           /\ req.handler_saw = TokenClaim(req.token)
           /\ req.handler_span.open

\* The request names its target.
TargetKnown(target) == target # None /\ target[1] # ""

\* C19: the span is named "<method> <target>" when the request names the
\* target and "<method>" when it does not.
C19_SpanName ==
    req.span.open
        => req.span.name =
              IF TargetKnown(req.target)
              THEN method_name(req.kind, req.method) \o " " \o req.target[1]
              ELSE method_name(req.kind, req.method)

\* C16: the document id is a collision-free function of (collection, key):
\* two ids are equal exactly when both the collections and the keys are,
\* with collections and keys that contain the separator as well.
C16_IdCollisionFree ==
    \A m1 \in made : \A m2 \in made :
        (m1.id = m2.id) <=> (m1.collection = m2.collection /\ m1.key = m2.key)

\* The collection a call with the argument c is about.
CollectionOf(c) == IF c = None THEN "default" ELSE c[1]

\* The documents of the container outside (collection, key).
Outside(cont, collection, key) ==
    {d \in cont : ~(d.collection = collection /\ d.key = key)}

\* C17: a put writes its document under the collection it was given, the
\* default one when none was given, and a get returns the value of the
\* document under the collection it was given in the same way; a step of a call on (collection, key)
\* leaves every document of every other (collection, key) as it was; and a
\* get, ttl or delete that the container answers, on a (collection, key) that
\* was never written, returns absent, (absent, absent) or false, whatever is
\* stored under the same key in other collections.
C17_CollectionFrame ==
    [][\A t \in Tasks :
          /\ (task[t].pc # "idle" /\ task'[t] # task[t])
                => Outside(container', CollectionOf(task[t].coll), task[t].key[1])
                     = Outside(container, CollectionOf(task[t].coll), task[t].key[1])
          /\ Ends(t, "upsert_item", "ok")
                => \E d \in container' :
                      /\ d.collection = CollectionOf(task[t].coll)
                      /\ d.key = task[t].key[1]
                      /\ d.entry[1].value = Some(task[t].value[1])
          /\ (task[t].op = "get" /\ Ends(t, "read_item", "value"))
                => \E d \in container :
                      /\ d.collection = CollectionOf(task[t].coll)
                      /\ d.key = task[t].key[1]
                      /\ d.entry[1].value = Last(task'[t].acc)
          /\ \A j \in 1..Len(task'[t].acc) :
                (task'[t].op \in {"get", "ttl", "delete"}
                    /\ task'[t].seen[j].put.st = "never"
                    /\ task'[t].how[j] # "error")
                    => task'[t].acc[j] = IF task'[t].op = "delete" THEN FALSE
                                         ELSE Absent(task'[t].op)]_vars

C17_Witness ==
    \E t \in Tasks :
        /\ task[t].op = "ttl" /\ task[t].pc = "idle"
        /\ task[t].coll = Some("clients")
        /\ task[t].how = <<"not_found">>
        /\ task[t].acc = <<(<<None, None>>)>>
        /\ \E d \in container :
              /\ d.key = task[t].seen[1].key
              /\ d.collection = "default"
              /\ lastPut[<<"default", d.key>>].st = "put"

\* C18: put_many writes its pairs one at a time, in the order given; when the
\* write of a pair fails the error is raised at once and the store is as that
\* step found it, so that the pairs written before are still committed with
\* their new values and no pair after the failed one is written.
C18_PutManyPartial ==
    [][\A t \in Tasks :
          /\ (task[t].op = "put_many" /\ Ends(t, "upsert_item", "error"))
                => /\ task'[t].raised = "Exception"
                   /\ task'[t].pc = "idle"
                   /\ container' = container
          /\ (task[t].op = "put_many" /\ Ends(t, "upsert_item", "ok"))
                => /\ Len(task'[t].how) = task[t].i
                   /\ Last(task'[t].wrote).key = task[t].key[1]
                   /\ Last(task'[t].wrote) \in container'
          /\ task'[t].op = "put_many"
                => LET tk == task'[t]
                   IN /\ \A j \in 1..Len(tk.how) :
                            /\ tk.how[j] = "error" => j = Len(tk.how)
                            /\ (tk.how[j] = "ok"
                                  /\ \A n \in (j + 1)..Len(tk.how) :
                                        ~(tk.how[n] = "ok" /\ tk.wrote[n].id = tk.wrote[j].id))
                                  => tk.wrote[j] \in container'
                      /\ (tk.pc = "idle" /\ tk.raised = "none" /\ tk.nk = tk.nv)
                            => Len(tk.how) = tk.nk]_vars

C18_Witness ==
    \E t \in Tasks :
        /\ task[t].op = "put_many" /\ task[t].pc = "idle"
        /\ task[t].nk = 2
        /\ task[t].how = <<"ok", "error">>
        /\ task[t].raised = "Exception"
        /\ task[t].wrote[1].key # task[t].wrote[2].key
        /\ task[t].wrote[1] \in container
        /\ read_item(container, task[t].wrote[2].id, task[t].wrote[2].collection) = {}

\* C20: the cleanup of an expired entry never destroys a newer write: with no
\* delete call issued, a get whose read the container answers after a put has
\* returned, at a time that put's entry is not expired, returns the value of
\* that put, also when a get or ttl that had read the entry expired before
\* the put was still in progress.
C20_CleanupKeepsNewerWrite ==
    \A t \in Tasks : \A j \in 1..Len(task[t].acc) :
        LET tk == task[t]
            p == tk.seen[j].put
        IN (tk.op = "get" /\ p.st = "put" /\ tk.how[j] # "error"
              /\ (HasTtl(p) => tk.at[j] <= ExpiresAt(p)))
               => tk.acc[j] = Some(p.value)

\* C21: the document a put with ttl t > 0 hands to upsert_item carries
\* expires_at = now + t and a native ttl, a whole number of seconds, that is
\* not smaller than t; the document of a put with no ttl or a ttl <= 0 carries
\* neither.
C21_TtlHintCoversTtl ==
    \A t \in Tasks :
        (task[t].op = "put" /\ task[t].doc # None)
            => LET d == task[t].doc[1]
                   x == task[t].ttl
                   created_at == fromisoformat(d.entry[1].created_at[1])
               IN IF x # None /\ x[1] > 0
                  THEN /\ d.entry[1].expires_at = Some(isoformat(created_at + x[1]))
                       /\ d.ttl # None
                       /\ d.ttl[1] * TicksPerSecond >= x[1]
                  ELSE /\ d.entry[1].expires_at = None
                       /\ d.ttl = None

\* The messages add_user_expense returns for a call it did not carry out.
ExpenseErrors ==
    {"Error: Amount must be positive",
     "Error: Authentication required (no user_id present)",
     "Error: Unable to add expense - conflict",
     "Error: Unable to add expense - "}

\* C22: add_user_expense adds an item to the container only when the amount
\* is positive and the authentication stage has published a non-empty user_id
\* in the per-request state, and the one item it adds carries that user_id;
\* when the amount is <= 0, the user_id is missing or empty, or create_item
\* fails, the container is as it was when the call came in and the handler
\* returns an error message, it does not raise.
C22_ExpenseOnlyForAuthenticatedUser ==
    [][/\ expenses' # expenses
          => /\ \E item \in expenses' \ expenses :
                   /\ expenses' = expenses \cup {item}
                   /\ item.user_id # ""
                   /\ TokenClaim(req.token) = Some(item.user_id)
                   /\ item.amount = tool.amount
             /\ tool.amount > 0
             /\ req.has_context
             /\ "user_id" \in req.state.keys
             /\ "AuthResolved" \in {req.trace[i] : i \in DOMAIN req.trace}
       /\ (tool.pc # "returned" /\ tool'.pc = "returned"
             /\ ~(/\ tool.amount > 0
                  /\ req.has_context
                  /\ TokenClaim(req.token) \notin {None, Some("")}
                  /\ tool'.stored = "answered"))
          => /\ expenses' = tool.before
             /\ req'.outcome.how = "result"
             /\ req'.outcome.msg \in ExpenseErrors]_vars

\* A call with a positive amount and a user_id in the state was answered by
\* the container: the item is written and the caller has the success message.
C22_Witness ==
    /\ tool.pc = "returned"
    /\ tool.stored = "answered"
    /\ expenses # tool.before
    /\ req.pc = "responded"
    /\ req.answer.msg = add_user_expense_success

\* C23: a patch of the post-provision script leaves the application with the
\* redirect URIs it had before the run plus the callback URI of the deployed
\* server, whether or not reading the existing URIs succeeded, so that none
\* is removed; and two patches for the same server leave the same set.
C23_RedirectUrisOnlyAdded ==
    [][(script.pc = "patch" /\ script'.end = "updated")
          => /\ graph'.redirect_uris
                  = script.before \cup {redirect_uri(script.server_url)}
             /\ script.before \subseteq graph'.redirect_uris
             /\ \A i, j \in DOMAIN script'.after :
                   script'.after[i].server_url = script'.after[j].server_url
                       => script'.after[i].uris = script'.after[j].uris]_vars

=============================================================================
